---- MODULE Spec2Model ----
(***************************************************************************)
(* Model of the two operational scripts of the repository:                 *)
(*   trigger-scheduled-restore.py  (restore trigger)                       *)
(*   run_schedules.py              (policy runner)                         *)
(*                                                                         *)
(* Python values are modelled as follows.  A dict is a function whose      *)
(* domain is the set of keys present; a list is a sequence; None, the      *)
(* booleans, the empty dict used as a restore option value and the opaque  *)
(* option values are strings, with Truthy giving Python's truth value.     *)
(***************************************************************************)
EXTENDS Integers, Sequences, FiniteSets, TLC

VARIABLES
    overrides,      \* OVERRIDES (configuration of the restore trigger)
    task_ids,       \* RESTORE_SCHEDULE_TASK_IDS
    pc,             \* position of main() of the restore trigger
    token,          \* the Authtoken returned by login(), <<>> before
    idx,            \* position of the for loop in RESTORE_SCHEDULE_TASK_IDS
    props,          \* schedule properties last returned by get_schedule_properties
    restore_opts,   \* the schedule's restore options found by build_restore_payload
    payload,        \* <<p>> once build_restore_payload returned p, else <<>>
    exc,            \* the exception in flight, "none" when there is none
    log,            \* the requests issued so far, in order, with their outcome
    norm_in,        \* the argument of a call of normalize_associations
    norm_out,       \* <<r>> once the call returned r, else <<>>
    policy_names,   \* POLICY_NAMES (configuration of the policy runner)
    policy_task_ids,\* POLICY_TASK_IDS
    known,          \* the schedule policies the platform has, by name and by id
    all_jobs,       \* the job list of the platform's job controller
    r_pc,           \* position of main() of the policy runner
    r_idx,          \* position of the running for loop in its list
    r_exc,          \* the exception that left main(), "none" when there is none
    r_log,          \* the SDK calls and console messages so far, in order
    recent          \* the jobs list_recent_jobs reports, in the order printed

restoreVars == <<overrides, task_ids, pc, token, idx, props, restore_opts, payload, exc, log>>

normVars == <<norm_in, norm_out>>

runnerVars == <<policy_names, policy_task_ids, known, all_jobs, r_pc, r_idx, r_exc, r_log, recent>>

vars == <<restoreVars, normVars, runnerVars>>

----------------------------------------------------------------------------
(* Bounds of the model *)

MaxSubTasks == 2
MaxTasks == 2
MaxAssoc == 2
MaxPolicies == 2
MaxJobs == 2
Now == 1000

----------------------------------------------------------------------------
(* Python helpers *)

None == "None"

EmptyDict == [k \in {} |-> None]

\* d.get(k)
Get(d, k) == IF k \in DOMAIN d THEN d[k] ELSE None

\* d.get(k, default)
GetOr(d, k, default) == IF k \in DOMAIN d THEN d[k] ELSE default

\* truth value of a restore-option value: None, False, {} and "" are false
Truthy(v) == v \notin {"None", "False", "{}", ""}

\* an optional value: <<>> (absent) or <<v>>
Opt(S) == {<<>>} \cup {<<s>> : s \in S}

\* the dict holding key k when the optional value o is present
Field(k, o) == IF Len(o) = 0 THEN EmptyDict ELSE (k :> o[1])

\* all lists over S of length at most n
ListsUpTo(S, n) == UNION {[1..m -> S] : m \in 0..n}

----------------------------------------------------------------------------
(* trigger-scheduled-restore.py: pure functions *)

AllowList == {"clientName", "appName", "instanceId", "backupsetId", "subclientId"}

\* the entries copied whole
normalize_associations_copy(associations) ==
    [i \in 1..Len(associations) |-> associations[i]]

normalize_associations(associations) ==
    [i \in 1..Len(associations) |->
        [k \in AllowList |-> Get(associations[i], k)]]

is_in_place_restore(opts) ==
    LET dest == Get(opts, "destination")
    IN  ~Truthy(dest)

IsRestoreSubTask(st) ==
    LET subtask == GetOr(st, "subTask", EmptyDict)
    IN  \/ Get(subtask, "operationType") = "RESTORE"
        \/ Get(subtask, "subTaskType") = "RESTORE"

RECURSIVE find_restore_opts_from(_, _)
find_restore_opts_from(sub_tasks, i) ==
    IF i > Len(sub_tasks) THEN EmptyDict
    ELSE IF IsRestoreSubTask(sub_tasks[i])
         THEN GetOr(GetOr(sub_tasks[i], "options", EmptyDict), "restoreOptions", EmptyDict)
         ELSE find_restore_opts_from(sub_tasks, i + 1)

\* the loop without its break: the last RESTORE subtask wins
RECURSIVE find_restore_opts_nobreak(_, _, _)
find_restore_opts_nobreak(sub_tasks, i, found) ==
    IF i > Len(sub_tasks) THEN found
    ELSE find_restore_opts_nobreak(sub_tasks, i + 1,
            IF IsRestoreSubTask(sub_tasks[i])
            THEN GetOr(GetOr(sub_tasks[i], "options", EmptyDict), "restoreOptions", EmptyDict)
            ELSE found)

find_restore_opts_last(sub_tasks) == find_restore_opts_nobreak(sub_tasks, 1, EmptyDict)

find_restore_opts(sub_tasks) == find_restore_opts_from(sub_tasks, 1)

FlagKeys == {"overwriteFiles", "restoreACLsType"}

\* the keys of OVERRIDES that build_restore_payload copies
AppliedKeys(OVERRIDES) ==
    {k \in {"destination"} : Truthy(Get(OVERRIDES, k))}
        \cup {k \in FlagKeys : Get(OVERRIDES, k) # None}

merged_restore_opts(opts, OVERRIDES) ==
    [k \in DOMAIN opts \cup AppliedKeys(OVERRIDES) |->
        IF k \in AppliedKeys(OVERRIDES) THEN OVERRIDES[k] ELSE opts[k]]

NoAssociations == "RuntimeError: Schedule has no associations"
NoDestination == "RuntimeError: Destination missing"

DestinationCheckFails(merged) ==
    LET dest == GetOr(merged, "destination", "{}")
    IN  ~Truthy(dest) /\ ~is_in_place_restore(merged)

PayloadOf(associations, merged) ==
    [taskInfo |->
        [task |-> [initiatedFrom |-> "COMMANDLINE",
                   taskType |-> 0,
                   policyType |-> "DATA_PROTECTION",
                   taskFlags |-> [disabled |-> FALSE]],
         associations |-> normalize_associations(associations),
         subTasks |-> << [subTask |-> [subTaskType |-> "RESTORE",
                                       operationType |-> "RESTORE"],
                          options |-> [restoreOptions |-> merged]] >>]]

\* build_restore_payload without the check of the associations
build_restore_payload_unchecked(p, OVERRIDES) ==
    LET ti == GetOr(p, "taskInfo", EmptyDict)
        associations == GetOr(ti, "associations", <<>>)
        sub_tasks == GetOr(ti, "subTasks", <<>>)
        found == find_restore_opts(sub_tasks)
        merged == merged_restore_opts(found, OVERRIDES)
    IN  [raised |-> "none", restore_opts |-> found,
         payload |-> <<PayloadOf(associations, merged)>>]

\* the result of build_restore_payload: the exception raised ("none" when it
\* returns), the schedule options found and the payload returned
build_restore_payload(p, OVERRIDES) ==
    LET ti == GetOr(p, "taskInfo", EmptyDict)
        associations == GetOr(ti, "associations", <<>>)
        sub_tasks == GetOr(ti, "subTasks", <<>>)
        found == find_restore_opts(sub_tasks)
        merged == merged_restore_opts(found, OVERRIDES)
    IN  IF Len(associations) = 0
        THEN [raised |-> NoAssociations, restore_opts |-> EmptyDict, payload |-> <<>>]
        ELSE IF DestinationCheckFails(merged)
        THEN [raised |-> NoDestination, restore_opts |-> found, payload |-> <<>>]
        ELSE [raised |-> "none", restore_opts |-> found,
              payload |-> <<PayloadOf(associations, merged)>>]

----------------------------------------------------------------------------
(* Inputs of the restore trigger *)

\* the override sets: any of the documented keys, and one further restore
\* option ("Add other restoreOptions fields you need")
OverrideSets ==
    {Field("destination", d) @@ Field("overwriteFiles", o)
        @@ Field("restoreACLsType", a) @@ Field("copyPrecedence", c) :
        d \in Opt({"{}", "Dtarget"}), o \in Opt({"None", "True"}),
        a \in Opt({"ACL_DATA"}), c \in Opt({"2"})}

\* the restore options stored in a schedule
ScheduleOpts ==
    {EmptyDict,
     "destination" :> "Dsched",
     "overwriteFiles" :> "False",
     ("destination" :> "Dsched") @@ ("overwriteFiles" :> "False")
        @@ ("restoreACLsType" :> "ACL_ONLY") @@ ("copyPrecedence" :> "1")}

SubTaskKinds ==
    {<<>>,
     << "operationType" :> "RESTORE" >>,
     << ("operationType" :> "BACKUP") @@ ("subTaskType" :> "RESTORE") >>,
     << ("operationType" :> "BACKUP") @@ ("subTaskType" :> "BACKUP") >>}

SubTaskOptions ==
    {<<>>} \cup {<< "restoreOptions" :> ro >> : ro \in ScheduleOpts}

SubTaskEntries ==
    {Field("subTask", s) @@ Field("options", o) : s \in SubTaskKinds, o \in SubTaskOptions}

Assoc1 == ("clientName" :> "c1") @@ ("appName" :> "File System") @@ ("subclientId" :> "7")
            @@ ("subclientName" :> "default")

AssociationChoices == {<<>>, << <<>> >>, << <<Assoc1>> >>}

\* the document with optional associations a and optional subtasks s
PropsOf(a, s) == "taskInfo" :> (Field("associations", a) @@ Field("subTasks", s))

----------------------------------------------------------------------------
(* build_restore_payload applied to any schedule-properties document *)

NormIdle == norm_in = <<>> /\ norm_out = <<>>

RunnerIdle ==
    /\ policy_names = <<>>
    /\ policy_task_ids = <<>>
    /\ known = [names |-> {}, ids |-> {}]
    /\ all_jobs = <<>>
    /\ r_pc = "idle"
    /\ r_idx = 1
    /\ r_exc = "none"
    /\ r_log = <<>>
    /\ recent = <<>>

RestoreIdle ==
    /\ overrides = EmptyDict
    /\ task_ids = <<>>
    /\ pc = "idle"
    /\ token = <<>>
    /\ idx = 1
    /\ props = EmptyDict
    /\ restore_opts = EmptyDict
    /\ payload = <<>>
    /\ exc = "none"
    /\ log = <<>>

InitBuild ==
    /\ NormIdle /\ RunnerIdle
    /\ overrides \in OverrideSets
    /\ task_ids = <<1>>
    /\ pc = "build"
    /\ token = <<"tok">>
    /\ idx = 1
    /\ \/ props = EmptyDict
       \/ \E a \in AssociationChoices :
             \/ props = PropsOf(a, <<>>)
             \/ \E m \in 0..MaxSubTasks :
                   \E s \in [1..m -> SubTaskEntries] : props = PropsOf(a, <<s>>)
    /\ restore_opts = EmptyDict
    /\ payload = <<>>
    /\ exc = "none"
    /\ log = <<>>

\* an exception raised with no finally clause around it ends the script at once
RaiseOutsideTry(e) == exc' = e /\ pc' = "done"

\* the try block without its finally clause
RaiseWithoutFinally(e) == exc' = e /\ pc' = "done"

\* an exception raised inside the try block of main: there is no except
\* clause, so control goes to the finally clause with the exception in flight
RaiseInTry(e) == exc' = e /\ pc' = "finally"

BuildRestorePayload ==
    /\ pc = "build"
    /\ LET r == build_restore_payload(props, overrides)
       IN  /\ restore_opts' = r.restore_opts
           /\ IF r.raised = "none"
              THEN payload' = r.payload /\ pc' = "submit" /\ UNCHANGED exc
              ELSE RaiseInTry(r.raised) /\ UNCHANGED payload
    /\ UNCHANGED <<overrides, task_ids, token, idx, props, log>>
    /\ UNCHANGED <<normVars, runnerVars>>

NextBuild == BuildRestorePayload

SpecBuild == InitBuild /\ [][NextBuild]_vars

----------------------------------------------------------------------------
(* main of the restore trigger *)

TaskIdValues == {1234, 5678}

\* OVERRIDES as configured in the source
SourceOverrides ==
    ("destination" :> "Dtarget") @@ ("overwriteFiles" :> "True")
        @@ ("restoreACLsType" :> "ACL_DATA")

RestoreSubTask == ("subTask" :> ("operationType" :> "RESTORE"))
                    @@ ("options" :> ("restoreOptions" :> ("destination" :> "Dsched")))

\* the documents GET /Schedules/{taskId} may return
MainProps ==
    {EmptyDict,
     "taskInfo" :> ("subTasks" :> <<RestoreSubTask>>),
     "taskInfo" :> (("associations" :> <<>>) @@ ("subTasks" :> <<RestoreSubTask>>)),
     "taskInfo" :> ("associations" :> <<Assoc1>>),
     "taskInfo" :> (("associations" :> <<Assoc1>>) @@ ("subTasks" :> <<RestoreSubTask>>))}

Request(op, pos, ok) == [op |-> op, pos |-> pos, ok |-> ok]

\* the position the for loop goes to when asked for element i
LoopTo(i) == IF i > Len(task_ids) THEN "finally" ELSE "fetch"

InitMain ==
    /\ NormIdle /\ RunnerIdle
    /\ overrides \in {EmptyDict, SourceOverrides}
    /\ task_ids \in ListsUpTo(TaskIdValues, MaxTasks)
    /\ pc = "start"
    /\ token = <<>>
    /\ idx = 1
    /\ props = EmptyDict
    /\ restore_opts = EmptyDict
    /\ payload = <<>>
    /\ exc = "none"
    /\ log = <<>>

\* main without the check of the configured list
MainStartUnchecked ==
    /\ pc = "start"
    /\ pc' = "login"
    /\ UNCHANGED <<overrides, task_ids, token, idx, props, restore_opts, payload, exc, log>>
    /\ UNCHANGED <<normVars, runnerVars>>

\* main, up to the call of login
MainStart ==
    /\ pc = "start"
    /\ IF Len(task_ids) = 0
       THEN RaiseOutsideTry("SystemExit(1)")
       ELSE pc' = "login" /\ UNCHANGED exc
    /\ UNCHANGED <<overrides, task_ids, token, idx, props, restore_opts, payload, log>>
    /\ UNCHANGED <<normVars, runnerVars>>

\* token = login(), which raises on an HTTP error or a response without token
Login ==
    /\ pc = "login"
    /\ \E r \in {"ok", "HTTPError: Login", "RuntimeError: no token"} :
          /\ log' = Append(log, Request("Login", 0, r = "ok"))
          /\ IF r = "ok"
             THEN token' = <<"tok">> /\ idx' = 1 /\ pc' = LoopTo(1) /\ UNCHANGED exc
             ELSE RaiseOutsideTry(r) /\ UNCHANGED <<token, idx>>
    /\ UNCHANGED <<overrides, task_ids, props, restore_opts, payload>>
    /\ UNCHANGED <<normVars, runnerVars>>

\* props = get_schedule_properties(token, task_id)
GetScheduleProperties ==
    /\ pc = "fetch"
    /\ \/ \E p \in MainProps :
             /\ log' = Append(log, Request("GetSchedule", idx, TRUE))
             /\ props' = p
             /\ pc' = "build"
             /\ UNCHANGED exc
       \/ /\ log' = Append(log, Request("GetSchedule", idx, FALSE))
          /\ RaiseInTry("HTTPError: Schedules")
          /\ UNCHANGED props
    /\ UNCHANGED <<overrides, task_ids, token, idx, restore_opts, payload>>
    /\ UNCHANGED <<normVars, runnerVars>>

\* a failed submission caught per item: the loop goes on with the next task id
SubmitRestoreCaught ==
    /\ pc = "submit"
    /\ \E ok \in BOOLEAN :
          /\ log' = Append(log, Request("CreateTask", idx, ok))
          /\ idx' = idx + 1
          /\ pc' = LoopTo(idx + 1)
          /\ UNCHANGED exc
    /\ UNCHANGED <<overrides, task_ids, token, props, restore_opts, payload>>
    /\ UNCHANGED <<normVars, runnerVars>>

\* resp = submit_restore(token, payload), and the end of the loop body
SubmitRestore ==
    /\ pc = "submit"
    /\ \/ /\ log' = Append(log, Request("CreateTask", idx, TRUE))
          /\ idx' = idx + 1
          /\ pc' = LoopTo(idx + 1)
          /\ UNCHANGED exc
       \/ /\ log' = Append(log, Request("CreateTask", idx, FALSE))
          /\ RaiseInTry("HTTPError: CreateTask")
          /\ UNCHANGED idx
    /\ UNCHANGED <<overrides, task_ids, token, props, restore_opts, payload>>
    /\ UNCHANGED <<normVars, runnerVars>>

\* the finally clause: logout(token), whose own failure is swallowed; the
\* exception in flight, if any, is then raised again
Logout ==
    /\ pc = "finally"
    /\ \E ok \in BOOLEAN : log' = Append(log, Request("Logout", 0, ok))
    /\ pc' = "done"
    /\ UNCHANGED <<overrides, task_ids, token, idx, props, restore_opts, payload, exc>>
    /\ UNCHANGED <<normVars, runnerVars>>

NextMain ==
    \/ MainStart
    \/ Login
    \/ GetScheduleProperties
    \/ BuildRestorePayload
    \/ SubmitRestore
    \/ Logout

SpecMain == InitMain /\ [][NextMain]_vars

----------------------------------------------------------------------------
(* Properties of main of the restore trigger *)

Ended == pc = "done"

LogPositions(op) == {n \in 1..Len(log) : log[n].op = op}

\* C5: once login has returned a token, logout is issued before the script
\* ends, whether the loop completed or a fetch, a build or a submission failed.
C5_LogoutBeforeEnd ==
    (Ended /\ token # <<>>) =>
        /\ Cardinality(LogPositions("Logout")) = 1
        /\ log[Len(log)].op = "Logout"

\* the script ended by a failed submission of the first of two task ids
C5_Witness ==
    /\ Ended /\ token # <<>>
    /\ exc = "HTTPError: CreateTask"
    /\ log[Len(log)].op = "Logout"

\* C6 as claimed: a failed submission does not stop the batch; every task id
\* configured after it is still fetched and submitted.
C6_SubmitFailureDoesNotStopBatch ==
    Ended =>
        \A n \in LogPositions("CreateTask") :
            ~log[n].ok =>
                \A j \in (log[n].pos + 1)..Len(task_ids) :
                    \E m \in LogPositions("GetSchedule") : log[m].pos = j

\* C6 amended: a failed submission is not caught; it ends the loop, the only
\* request after it is the logout, and the exception leaves main.
C6_SubmitFailureStopsBatch ==
    \A n \in LogPositions("CreateTask") :
        ~log[n].ok =>
            /\ \A m \in (n + 1)..Len(log) : log[m].op = "Logout"
            /\ pc \in {"finally", "done"}
            /\ Ended => log[Len(log)].op = "Logout"
            /\ exc = "HTTPError: CreateTask"

C6_Witness ==
    /\ Ended
    /\ Len(task_ids) = 2
    /\ \E n \in LogPositions("CreateTask") : log[n].pos = 1 /\ ~log[n].ok
    /\ LogPositions("Logout") # {}

\* C8: when the fetched properties have no associations, build_restore_payload
\* raises, the run aborts, and no CreateTask is submitted for that task id or
\* for a later one.
C8_NoAssociationsAborts ==
    (pc \in {"submit", "finally", "done"}
        /\ (\E n \in LogPositions("GetSchedule") : log[n].pos = idx /\ log[n].ok)
        /\ ("taskInfo" \notin DOMAIN props
                \/ "associations" \notin DOMAIN props["taskInfo"]
                \/ props["taskInfo"]["associations"] = <<>>))
        => /\ pc # "submit"
           /\ exc = NoAssociations
           /\ \A n \in LogPositions("CreateTask") : log[n].pos < idx

\* the first of two task ids has no associations
C8_Witness ==
    /\ Ended
    /\ Len(task_ids) = 2 /\ idx = 1
    /\ "taskInfo" \in DOMAIN props /\ "associations" \notin DOMAIN props["taskInfo"]
    /\ exc = NoAssociations
    /\ LogPositions("CreateTask") = {}

\* C10: login and logout are issued at most once; every fetch and every
\* submission lies after the successful login and before the logout; the
\* submission for a task id follows its fetch; with no task id configured
\* the script exits without any request.
C10_RequestOrder ==
    /\ Cardinality(LogPositions("Login")) <= 1
    /\ Cardinality(LogPositions("Logout")) <= 1
    /\ \A n \in LogPositions("GetSchedule") \cup LogPositions("CreateTask") :
          /\ \E m \in 1..(n - 1) : log[m].op = "Login" /\ log[m].ok
          /\ \A m \in 1..(n - 1) : log[m].op # "Logout"
    /\ \A n \in LogPositions("CreateTask") :
          \E m \in 1..(n - 1) : log[m].op = "GetSchedule" /\ log[m].pos = log[n].pos
    /\ Len(task_ids) = 0 => (log = <<>> /\ pc \in {"start", "done"})

\* a run that fetched and submitted two task ids and logged out
C10_Witness ==
    /\ Ended
    /\ Len(task_ids) = 2
    /\ Cardinality(LogPositions("CreateTask")) = 2
    /\ log[Len(log)].op = "Logout"
    /\ exc = "none"

----------------------------------------------------------------------------
(* Properties of build_restore_payload *)

BuildDone == pc \in {"submit", "finally"}

\* the subtasks of the fetched document
SubTasksOf(p) ==
    IF "taskInfo" \in DOMAIN p /\ "subTasks" \in DOMAIN p["taskInfo"]
    THEN p["taskInfo"]["subTasks"] ELSE <<>>

\* the positions of the subtasks whose operation type or subtask type is RESTORE
RestoreIdx(sub_tasks) ==
    {i \in 1..Len(sub_tasks) :
        /\ "subTask" \in DOMAIN sub_tasks[i]
        /\ \E t \in {"operationType", "subTaskType"} :
              /\ t \in DOMAIN sub_tasks[i]["subTask"]
              /\ sub_tasks[i]["subTask"][t] = "RESTORE"}

\* the restore-options block of subtask st, empty when it has none
BlockOf(st) ==
    IF "options" \in DOMAIN st /\ "restoreOptions" \in DOMAIN st["options"]
    THEN st["options"]["restoreOptions"] ELSE EmptyDict

\* the restore options stored in the document: those of its first RESTORE subtask
DocRestoreOpts(p) ==
    LET R == RestoreIdx(SubTasksOf(p))
    IN  IF R = {} THEN EmptyDict
        ELSE BlockOf(SubTasksOf(p)[CHOOSE i \in R : \A j \in R : i <= j])

HasDestination(d) == "destination" \in DOMAIN d /\ d["destination"] \notin {"None", "{}"}

PayloadOpts == payload[1].taskInfo.subTasks[1].options.restoreOptions

\* C1: build_restore_payload fails, and returns no payload, whenever neither the
\* document's restore options nor the override set hold a destination.
C1_FailsWithoutDestination ==
    (BuildDone /\ ~HasDestination(DocRestoreOpts(props)) /\ ~HasDestination(overrides))
        => (exc # "none" /\ payload = <<>>)

\* C2: the restoreOptions of the returned payload hold every key of the override
\* set, bound to the override's value.
C2_EveryOverrideKeyWins ==
    (BuildDone /\ payload # <<>>
        /\ (HasDestination(DocRestoreOpts(props)) \/ HasDestination(overrides)))
        => \A k \in DOMAIN overrides :
              k \in DOMAIN PayloadOpts /\ PayloadOpts[k] = overrides[k]

\* C9: the schedule options merged are the restore-options block of the first
\* RESTORE subtask in list order (empty when there is none); nothing else of
\* the subtask list reaches the payload, which holds exactly one subtask, of
\* type RESTORE.
C9_FirstRestoreSubTask ==
    (BuildDone /\ exc # NoAssociations) =>
        /\ restore_opts = DocRestoreOpts(props)
        /\ payload # <<>> =>
              /\ Len(payload[1].taskInfo.subTasks) = 1
              /\ payload[1].taskInfo.subTasks[1].subTask.subTaskType = "RESTORE"
              /\ payload[1].taskInfo.subTasks[1].subTask.operationType = "RESTORE"
              /\ DOMAIN PayloadOpts \subseteq DOMAIN DocRestoreOpts(props) \cup DOMAIN overrides
              /\ \A k \in DOMAIN DocRestoreOpts(props) :
                    /\ k \in DOMAIN PayloadOpts
                    /\ \/ PayloadOpts[k] = DocRestoreOpts(props)[k]
                       \/ k \in DOMAIN overrides /\ PayloadOpts[k] = overrides[k]

\* a document with two RESTORE subtasks holding different blocks, and one
\* whose RESTORE subtask follows a non-RESTORE subtask that has a block
C9_Witness ==
    /\ BuildDone /\ payload # <<>>
    /\ Len(SubTasksOf(props)) = 2
    /\ RestoreIdx(SubTasksOf(props)) = {1, 2}
    /\ BlockOf(SubTasksOf(props)[1]) # BlockOf(SubTasksOf(props)[2])
    /\ restore_opts = BlockOf(SubTasksOf(props)[1])
    /\ restore_opts # EmptyDict

----------------------------------------------------------------------------
(* normalize_associations applied to any list of association entries *)

AssocFields == AllowList \cup {"subclientName"}

\* the list whose i-th entry has the fields D[i]; the value of field k of the
\* i-th entry names k and i
AssociationList(D) ==
    [i \in DOMAIN D |-> [k \in D[i] |-> k \o "@" \o ToString(i)]]

\* normalize_associations is given any list of at most MaxAssoc entries
InitNorm ==
    /\ RestoreIdle /\ RunnerIdle
    /\ \E m \in 0..MaxAssoc :
          \E D \in [1..m -> SUBSET AssocFields] : norm_in = AssociationList(D)
    /\ norm_out = <<>>

NormalizeAssociations ==
    /\ norm_out = <<>>
    /\ norm_out' = <<normalize_associations(norm_in)>>
    /\ UNCHANGED norm_in
    /\ UNCHANGED <<restoreVars, runnerVars>>

NextNorm == NormalizeAssociations

SpecNorm == InitNorm /\ [][NextNorm]_vars

\* C3: normalize_associations returns a list of the same length in the same
\* order; its i-th entry carries exactly the five allow-listed fields, each with
\* the value the i-th input entry has for it (None when it has none), and no
\* other field of the input entry.
C3_NormalizeKeepsAllowList ==
    norm_out # <<>> =>
        /\ Len(norm_out[1]) = Len(norm_in)
        /\ \A i \in 1..Len(norm_in) :
              /\ DOMAIN norm_out[1][i] =
                    {"clientName", "appName", "instanceId", "backupsetId", "subclientId"}
              /\ \A k \in DOMAIN norm_out[1][i] :
                    norm_out[1][i][k] =
                        IF k \in DOMAIN norm_in[i] THEN norm_in[i][k] ELSE "None"

\* two different entries, the first with a field outside the allow-list and
\* without one of the allow-listed fields
C3_Witness ==
    /\ norm_out # <<>>
    /\ Len(norm_in) = 2
    /\ "subclientName" \in DOMAIN norm_in[1]
    /\ "instanceId" \notin DOMAIN norm_in[1]
    /\ "clientName" \in DOMAIN norm_in[1]
    /\ DOMAIN norm_in[2] # DOMAIN norm_in[1]
    /\ norm_out[1][1]["clientName"] = "clientName@1"

----------------------------------------------------------------------------
(* run_schedules.py: list_recent_jobs *)

RECENT_WINDOW_MINUTES == 3

QUERY_RECENT_JOBS == TRUE

\* USER, as a sequence of characters
USER == <<"A", "b">>

\* values of the time fields: an epoch number, a string (ISO form), or None
TimeInt(n) == [kind |-> "int", n |-> n]
TimeStr == [kind |-> "str", n |-> 0]
TimeNone == [kind |-> "none", n |-> 0]

\* values of the user fields: a string, a number, or None
UserStr(chars) == [kind |-> "str", s |-> chars]
UserInt == [kind |-> "int", s |-> <<>>]
UserNone == [kind |-> "none", s |-> <<>>]

TimeTruthy(t) == t.kind = "str" \/ (t.kind = "int" /\ t.n # 0)

UserTruthy(u) == u.kind = "int" \/ (u.kind = "str" /\ u.s # <<>>)

\* str.lower() on one character
LowerChar(c) ==
    CASE c = "A" -> "a"
      [] c = "B" -> "b"
      [] c = "C" -> "c"
      [] OTHER -> c

\* str.lower()
Lower(chars) == [i \in 1..Len(chars) |-> LowerChar(chars[i])]

\* a == b, for strings
StrEq(a, b) == a = b

\* a in b, for strings
InStr(a, b) ==
    \E off \in 0..(Len(b) - Len(a)) : SubSeq(b, off + 1, off + Len(a)) = a

\* cutoff = now - timedelta(minutes=RECENT_WINDOW_MINUTES), in epoch seconds
Cutoff == Now - RECENT_WINDOW_MINUTES * 60

\* the body of the loop of list_recent_jobs for one entry of the job list:
\* "raise" when an exception is caught, "keep" when the entry is appended,
\* "drop" otherwise
JobOutcome(e) ==
    IF ~e.is_dict THEN "raise"
    ELSE
        LET d == e.details
            st1 == GetOr(d, "submitTime", TimeNone)
            submit_time == IF TimeTruthy(st1) THEN st1 ELSE GetOr(d, "startTime", TimeNone)
            submitted == IF submit_time.kind = "int" THEN <<submit_time.n>> ELSE <<>>
            u1 == GetOr(d, "userName", UserNone)
            u2 == IF UserTruthy(u1) THEN u1 ELSE GetOr(d, "user", UserNone)
            u3 == IF UserTruthy(u2) THEN u2 ELSE UserStr(<<>>)
        IN  IF u3.kind # "str" THEN "raise"
            ELSE IF /\ submitted # <<>>
                    /\ submitted[1] >= Cutoff
                    /\ InStr(Lower(USER), Lower(u3.s))
                 THEN "keep"
                 ELSE "drop"

\* the time of a kept entry
SubmittedOf(e) ==
    LET st1 == GetOr(e.details, "submitTime", TimeNone)
    IN  IF TimeTruthy(st1) THEN st1.n ELSE e.details["startTime"].n

ReportOf(e) ==
    [jid |-> e.jid, submitted |-> SubmittedOf(e), status |-> GetOr(e.details, "status", "None")]

\* the list recent before it is sorted
RECURSIVE CollectRecent(_, _)
CollectRecent(jobs, i) ==
    IF i > Len(jobs) THEN <<>>
    ELSE IF JobOutcome(jobs[i]) = "keep"
         THEN <<ReportOf(jobs[i])>> \o CollectRecent(jobs, i + 1)
         ELSE CollectRecent(jobs, i + 1)

\* x inserted into the sorted list r after every element not later than it
RECURSIVE InsertSorted(_, _)
InsertSorted(r, x) ==
    IF r = <<>> THEN <<x>>
    ELSE IF x.submitted < Head(r).submitted
         THEN <<x>> \o r
         ELSE <<Head(r)>> \o InsertSorted(Tail(r), x)

\* recent.sort(key=lambda x: x[1]), a stable sort
RECURSIVE SortBySubmitted(_)
SortBySubmitted(r) ==
    IF r = <<>> THEN <<>>
    ELSE InsertSorted(SortBySubmitted(SubSeq(r, 1, Len(r) - 1)), r[Len(r)])

list_recent_jobs(jobs) == SortBySubmitted(CollectRecent(jobs, 1))

----------------------------------------------------------------------------
(* Inputs of the policy runner *)

\* the time fields of an entry: none; submitTime 0 or absent with a recent
\* startTime; submitTime before the cutoff, at the cutoff, or a string
JobTimeFields ==
    {EmptyDict,
     ("submitTime" :> TimeInt(0)) @@ ("startTime" :> TimeInt(Now)),
     "startTime" :> TimeInt(Now),
     ("submitTime" :> TimeInt(Cutoff - 1)) @@ ("startTime" :> TimeInt(Now)),
     "submitTime" :> TimeInt(Cutoff),
     ("submitTime" :> TimeStr) @@ ("startTime" :> TimeInt(Now))}

\* the user fields of an entry: none; USER in another case; a longer name
\* holding USER; another user; an empty userName with a user; a number
JobUserFields ==
    {EmptyDict,
     "userName" :> UserStr(<<"a", "B">>),
     "userName" :> UserStr(<<"c", "a", "b">>),
     ("userName" :> UserStr(<<"b", "a">>)) @@ ("user" :> UserStr(<<"a", "b">>)),
     ("userName" :> UserStr(<<>>)) @@ ("user" :> UserStr(<<"A", "b">>)),
     "userName" :> UserInt}

JobDetails == {t @@ u : t \in JobTimeFields, u \in JobUserFields}

\* an entry whose details are not a dict, and the well-formed entries
JobEntries ==
    {[is_dict |-> FALSE, details |-> EmptyDict]}
        \cup {[is_dict |-> TRUE, details |-> d] : d \in JobDetails}

\* the job list with the entries L; the job id of an entry is its position
JobList(L) ==
    [i \in DOMAIN L |-> [jid |-> i, is_dict |-> L[i].is_dict, details |-> L[i].details]]

PolicyNameValues == {"Nightly", "Weekly"}

PolicyIdValues == {451, 777}

----------------------------------------------------------------------------
(* list_recent_jobs applied to any job list *)

InitJobs ==
    /\ RestoreIdle /\ NormIdle
    /\ policy_names = <<>>
    /\ policy_task_ids = <<>>
    /\ known = [names |-> {}, ids |-> {}]
    /\ \E m \in 0..MaxJobs : \E L \in [1..m -> JobEntries] : all_jobs = JobList(L)
    /\ r_pc = "jobs"
    /\ r_idx = 1
    /\ r_exc = "none"
    /\ r_log = <<>>
    /\ recent = <<>>

Call(op, list, pos, ok) == [op |-> op, list |-> list, pos |-> pos, ok |-> ok]

\* list_recent_jobs(commcell), and the end of main
ListRecentJobs ==
    /\ r_pc = "jobs"
    /\ \/ /\ recent' = list_recent_jobs(all_jobs)
          /\ r_log' = Append(r_log, Call("all_jobs", "jobs", 0, TRUE))
          /\ UNCHANGED r_exc
       \/ /\ r_log' = Append(r_log, Call("all_jobs", "jobs", 0, FALSE))
          /\ r_exc' = "SDKException: all_jobs"
          /\ UNCHANGED recent
    /\ r_pc' = "done"
    /\ UNCHANGED <<policy_names, policy_task_ids, known, all_jobs, r_idx>>
    /\ UNCHANGED <<restoreVars, normVars>>

NextJobs == ListRecentJobs

SpecJobs == InitJobs /\ [][NextJobs]_vars

----------------------------------------------------------------------------
(* main of the policy runner *)

\* the entries of the job list in the runs of the whole script
RunnerJobEntries ==
    {[is_dict |-> FALSE, details |-> EmptyDict],
     [is_dict |-> TRUE,
      details |-> ("submitTime" :> TimeInt(Cutoff)) @@ ("userName" :> UserStr(<<"a", "B">>))]}

InitRunner ==
    /\ RestoreIdle /\ NormIdle
    /\ policy_names \in ListsUpTo(PolicyNameValues, MaxPolicies)
    /\ policy_task_ids \in ListsUpTo(PolicyIdValues, MaxPolicies)
    /\ known \in [names : SUBSET PolicyNameValues, ids : SUBSET PolicyIdValues]
    /\ \E m \in 0..1 : \E L \in [1..m -> RunnerJobEntries] : all_jobs = JobList(L)
    /\ r_pc = "connect"
    /\ r_idx = 1
    /\ r_exc = "none"
    /\ r_log = <<>>
    /\ recent = <<>>

\* the statement of main that follows run_by_names
AfterNames == IF Len(policy_task_ids) > 0 THEN "ids_start"
              ELSE IF QUERY_RECENT_JOBS THEN "jobs" ELSE "done"

\* the statement of main that follows run_by_task_ids
AfterIds == IF QUERY_RECENT_JOBS THEN "jobs" ELSE "done"

\* an exception nothing catches leaves the with block and main
Abort(e) == r_exc' = e /\ r_pc' = "done"

\* with Commcell(HOST, USER, PASS) as commcell
Connect ==
    /\ r_pc = "connect"
    /\ \/ /\ r_log' = Append(r_log, Call("Commcell", "main", 0, TRUE))
          /\ r_pc' = IF Len(policy_names) > 0 THEN "names_start" ELSE AfterNames
          /\ UNCHANGED r_exc
       \/ /\ r_log' = Append(r_log, Call("Commcell", "main", 0, FALSE))
          /\ Abort("SDKException: login")
    /\ UNCHANGED <<policy_names, policy_task_ids, known, all_jobs, r_idx, recent>>
    /\ UNCHANGED <<restoreVars, normVars>>

\* run_by_names up to its loop: SchedulePolicies(commcell), all_schedule_policies()
RunByNamesStart ==
    /\ r_pc = "names_start"
    /\ \/ /\ r_log' = Append(r_log, Call("SchedulePolicies", "names", 0, TRUE))
          /\ r_pc' = "names"
          /\ r_idx' = 1
          /\ UNCHANGED r_exc
       \/ /\ r_log' = Append(r_log, Call("SchedulePolicies", "names", 0, FALSE))
          /\ Abort("SDKException: SchedulePolicies")
          /\ UNCHANGED r_idx
    /\ UNCHANGED <<policy_names, policy_task_ids, known, all_jobs, recent>>
    /\ UNCHANGED <<restoreVars, normVars>>

\* the end of one pass of the loop of run_by_names
NextName ==
    /\ r_idx' = r_idx + 1
    /\ r_pc' = IF r_idx + 1 > Len(policy_names) THEN AfterNames ELSE "names"
    /\ UNCHANGED r_exc

\* one pass of the loop of run_by_names
RunByNamesItem ==
    /\ r_pc = "names"
    /\ r_idx <= Len(policy_names)
    /\ \/ /\ policy_names[r_idx] \notin known.names
          /\ r_log' = r_log \o << Call("has_policy", "names", r_idx, FALSE),
                                  Call("WARN", "names", r_idx, TRUE) >>
          /\ NextName
       \/ /\ policy_names[r_idx] \in known.names
          /\ r_log' = r_log \o << Call("has_policy", "names", r_idx, TRUE),
                                  Call("get", "names", r_idx, FALSE) >>
          /\ Abort("SDKException: get")
          /\ UNCHANGED r_idx
       \/ /\ policy_names[r_idx] \in known.names
          /\ \E ran \in BOOLEAN :
                r_log' = r_log \o << Call("has_policy", "names", r_idx, TRUE),
                                     Call("get", "names", r_idx, TRUE),
                                     Call("run_now", "names", r_idx, ran),
                                     Call(IF ran THEN "OK" ELSE "ERROR", "names", r_idx, TRUE) >>
          /\ NextName
    /\ UNCHANGED <<policy_names, policy_task_ids, known, all_jobs, recent>>
    /\ UNCHANGED <<restoreVars, normVars>>

\* run_by_task_ids up to its loop: SchedulePolicies(commcell)
RunByTaskIdsStart ==
    /\ r_pc = "ids_start"
    /\ \/ /\ r_log' = Append(r_log, Call("SchedulePolicies", "ids", 0, TRUE))
          /\ r_pc' = "ids"
          /\ r_idx' = 1
          /\ UNCHANGED r_exc
       \/ /\ r_log' = Append(r_log, Call("SchedulePolicies", "ids", 0, FALSE))
          /\ Abort("SDKException: SchedulePolicies")
          /\ UNCHANGED r_idx
    /\ UNCHANGED <<policy_names, policy_task_ids, known, all_jobs, recent>>
    /\ UNCHANGED <<restoreVars, normVars>>

\* one pass of the loop of run_by_task_ids; sp.get raises for an absent policy
\* and may raise for any other reason
RunByTaskIdsItem ==
    /\ r_pc = "ids"
    /\ r_idx <= Len(policy_task_ids)
    /\ \/ /\ r_log' = r_log \o << Call("get", "ids", r_idx, FALSE),
                                  Call("WARN", "ids", r_idx, TRUE) >>
       \/ /\ policy_task_ids[r_idx] \in known.ids
          /\ \E ran \in BOOLEAN :
                r_log' = r_log \o << Call("get", "ids", r_idx, TRUE),
                                     Call("run_now", "ids", r_idx, ran),
                                     Call(IF ran THEN "OK" ELSE "ERROR", "ids", r_idx, TRUE) >>
    /\ r_idx' = r_idx + 1
    /\ r_pc' = IF r_idx + 1 > Len(policy_task_ids) THEN AfterIds ELSE "ids"
    /\ UNCHANGED <<policy_names, policy_task_ids, known, all_jobs, r_exc, recent>>
    /\ UNCHANGED <<restoreVars, normVars>>

NextRunner ==
    \/ Connect
    \/ RunByNamesStart
    \/ RunByNamesItem
    \/ RunByTaskIdsStart
    \/ RunByTaskIdsItem
    \/ ListRecentJobs

SpecRunner == InitRunner /\ [][NextRunner]_vars

----------------------------------------------------------------------------
(* Properties of the policy runner *)

RunnerEnded == r_pc = "done"

Calls(op, list) == {n \in 1..Len(r_log) : r_log[n].op = op /\ r_log[n].list = list}

Started(list) ==
    \E n \in Calls("SchedulePolicies", list) : r_log[n].ok

ListOf(list) == IF list = "names" THEN policy_names ELSE policy_task_ids

\* the call that looks the policy up: has_policy for a name, get for an id
LookupOp(list) == IF list = "names" THEN "has_policy" ELSE "get"

Absent(list, pos) ==
    IF list = "names" THEN policy_names[pos] \notin known.names
    ELSE policy_task_ids[pos] \notin known.ids

\* C7: every configured item is processed exactly once in list order; an absent
\* policy is skipped with a warning and never run; a failed lookup or run-now
\* of one item does not prevent the lookup and run-now of a later item.
C7_EveryItemProcessed ==
    RunnerEnded =>
        \A list \in {"names", "ids"} :
            Started(list) =>
                /\ \A pos \in 1..Len(ListOf(list)) :
                      /\ Cardinality({n \in Calls(LookupOp(list), list) : r_log[n].pos = pos}) = 1
                      /\ Absent(list, pos) =>
                            /\ \E n \in Calls("WARN", list) : r_log[n].pos = pos
                            /\ \A n \in Calls("run_now", list) : r_log[n].pos # pos
                      /\ (\E n \in Calls("get", list) : r_log[n].pos = pos /\ r_log[n].ok) =>
                            \E n \in Calls("run_now", list) : r_log[n].pos = pos
                /\ \A n, m \in Calls(LookupOp(list), list) :
                      n < m => r_log[n].pos < r_log[m].pos

----------------------------------------------------------------------------
(* Properties of list_recent_jobs *)

JobsListed == r_pc = "done" /\ r_exc = "none"

Reported == {recent[n].jid : n \in 1..Len(recent)}

\* the letters of a name with their case folded
Fold(chars) ==
    [i \in 1..Len(chars) |->
        IF chars[i] \in {"a", "A"} THEN "a"
        ELSE IF chars[i] \in {"b", "B"} THEN "b"
        ELSE IF chars[i] \in {"c", "C"} THEN "c"
        ELSE chars[i]]

\* the time field an entry is judged by: submitTime, or startTime when
\* submitTime is missing or zero
TimeFieldOf(e) ==
    IF "submitTime" \in DOMAIN e.details /\ e.details["submitTime"] # TimeInt(0)
    THEN <<e.details["submitTime"]>>
    ELSE IF "startTime" \in DOMAIN e.details THEN <<e.details["startTime"]>> ELSE <<>>

\* the user field an entry is judged by: userName, or user when userName is
\* missing or empty
UserFieldOf(e) ==
    IF "userName" \in DOMAIN e.details /\ e.details["userName"] # UserStr(<<>>)
    THEN <<e.details["userName"]>>
    ELSE IF "user" \in DOMAIN e.details THEN <<e.details["user"]>> ELSE <<>>

\* an entry that cannot be parsed: its details are no dict, or its user is no string
Malformed(e) ==
    \/ ~e.is_dict
    \/ UserFieldOf(e) # <<>> /\ UserFieldOf(e)[1].kind = "int"

InWindow(e) ==
    /\ TimeFieldOf(e) # <<>>
    /\ TimeFieldOf(e)[1].kind = "int"
    /\ TimeFieldOf(e)[1].n >= Now - 3 * 60

UserIs(e) ==
    /\ UserFieldOf(e) # <<>>
    /\ Fold(UserFieldOf(e)[1].s) = Fold(USER)

UserContains(e) ==
    /\ UserFieldOf(e) # <<>>
    /\ \E i \in 1..Len(UserFieldOf(e)[1].s) :
         \E j \in i..Len(UserFieldOf(e)[1].s) :
            Fold(SubSeq(UserFieldOf(e)[1].s, i, j)) = Fold(USER)

====
